---- MODULE Spec2Model ----
(***************************************************************************)
(* Single-server queue with a finite buffer (SystemState) and the          *)
(* statistics counters (Counter hierarchy) of the discrete-event           *)
(* simulator.                                                              *)
(*                                                                         *)
(*   Spec        SystemState driven by arbitrary call sequences, the queue *)
(*               honouring its contract (remove yields the head unless the *)
(*               queue is empty).                                          *)
(*   SpecFault   the same, but a removal from a non-empty queue may yield  *)
(*               no unit (the edge case start_service guards against).     *)
(*   CounterSpec one counter of any of the four variants, driven by        *)
(*               arbitrary count / reset / query calls and a clock.        *)
(***************************************************************************)
EXTENDS Integers, Sequences, FiniteSets

VARIABLES
    \* ---- SystemState (systemstate.py) ----
    server_busy,      \* self.server_busy
    buffer,           \* self.buffer: the FiniteQueue's content, head first
    served_packet,    \* self.served_packet: a packet record or None
    next_id,          \* identity of the next Packet object constructed
    reported,         \* units handed to counter_collection.count_packet
    ret,              \* outcome of the last SystemState call
    \* ---- Counter (counter.py) ----
    kind,             \* which concrete counter class the object is
    values,           \* self.values
    Xvalues,          \* self.X.values (correlation counters)
    Yvalues,          \* self.Y.values (cross-correlation counter)
    first_timestamp,  \* self.first_timestamp (time-dependent counter)
    last_timestamp,   \* self.last_timestamp (time-dependent counter)
    max_lag,          \* self.max_lag (auto-correlation counter)
    now,              \* sim.sim_state.now
    counted,          \* history: the arguments of the count calls since
                      \* construction or the last reset
    result            \* outcome of the last counter call

svars == <<server_busy, buffer, served_packet, next_id, reported, ret>>
cvars == <<kind, values, Xvalues, Yvalues, first_timestamp, last_timestamp,
           max_lag, now, counted, result>>
vars  == <<svars, cvars>>

\* ------------------------------------------------------------------ bounds
K           == 2     \* sim.sim_param.S, the buffer capacity
MaxPackets  == 4     \* Packet objects constructed in one behaviour
MaxReports  == 3     \* count_packet calls in one behaviour
MaxLen      == 3     \* count calls between two resets
MaxTime     == 3     \* largest value of the simulation clock
MaxLag      == 2     \* largest lag / max_lag argument

\* ------------------------------------------------------------------ Packet
None == [id |-> -1, in_service |-> FALSE, completed |-> FALSE, none |-> TRUE]

\* Packet(sim, iat): a fresh unit, neither in service nor completed.
Packet(i) == [id |-> i, in_service |-> FALSE, completed |-> FALSE, none |-> FALSE]

\* Packet.start_service(): the unit is marked as being served.
PacketStartService(p) == [p EXCEPT !.in_service = TRUE]

\* Packet.complete_service(): the unit is marked completed.
PacketCompleteService(p) == [p EXCEPT !.completed = TRUE]

\* ------------------------------------------------------------- FiniteQueue
\* add(unit) -> bool: false iff the queue is full.
QueueAccepts(q) == Len(q) < K
QueueAdd(q, p) == IF QueueAccepts(q) THEN Append(q, p) ELSE q

\* get_queue_length()
QueueLength(q) == Len(q)

\* remove() -> unit | none. ok = FALSE is a removal that yields no unit
\* although the queue is not empty; the queue is then left as it was.
QueueRemoved(q, ok) == IF Len(q) > 0 /\ ok THEN Packet(Head(q)) ELSE None
QueueAfterRemove(q, ok) == IF Len(q) > 0 /\ ok THEN Tail(q) ELSE q

\* ------------------------------------------------------------- SystemState
Ret(op, res, val) == [op |-> op, result |-> res, value |-> val]

SInit ==
    /\ server_busy = FALSE
    /\ buffer = <<>>
    /\ served_packet = Packet(0)
    /\ next_id = 1
    /\ reported = <<>>
    /\ ret = Ret("init", "None", 0)

\* line 52: the server takes the new unit only when it is idle
ServerAlwaysAccepts(busy) == TRUE
ServerAccepts(busy) == ~busy

add_packet_to_server ==
    /\ next_id <= MaxPackets
    /\ next_id' = next_id + 1
    /\ IF ServerAccepts(server_busy)
         THEN /\ served_packet' = PacketStartService(Packet(next_id))
              /\ server_busy' = TRUE
              /\ ret' = Ret("add_packet_to_server", "True", 0)
         ELSE /\ UNCHANGED <<served_packet, server_busy>>
              /\ ret' = Ret("add_packet_to_server", "False", 0)
    /\ UNCHANGED <<buffer, reported>>
    /\ UNCHANGED cvars

\* line 74: the call returns what the queue's add returned
QueueResultIgnored(accepted) == "True"
AddToQueueResult(accepted) == IF accepted THEN "True" ELSE "False"

add_packet_to_queue ==
    /\ next_id <= MaxPackets
    /\ next_id' = next_id + 1
    /\ buffer' = QueueAdd(buffer, next_id)
    /\ ret' = Ret("add_packet_to_queue", AddToQueueResult(QueueAccepts(buffer)), 0)
    /\ UNCHANGED <<server_busy, served_packet, reported>>
    /\ UNCHANGED cvars

\* line 84: the server is idle after a completion
BusyKeptOnComplete(busy) == busy
BusyAfterComplete(busy) == FALSE

\* line 86: the served unit is handed to counter_collection.count_packet
ReportSkipped(log, p) == log
CountPacket(log, p) == Append(log, p.id)

\* lines 82-83: the unit's own complete_service runs once
CompleteUnit(p) == IF ~p.completed THEN PacketCompleteService(p) ELSE p

complete_service ==
    /\ Len(reported) < MaxReports
    /\ IF served_packet.none
         THEN \* line 82: None has no attribute 'completed'
              /\ ret' = Ret("complete_service", "AttributeError", 0)
              /\ UNCHANGED <<server_busy, served_packet, reported>>
         ELSE /\ served_packet' = CompleteUnit(served_packet)
              /\ server_busy' = BusyAfterComplete(server_busy)
              /\ reported' = CountPacket(reported, served_packet)
              /\ ret' = Ret("complete_service", "None", 0)
    /\ UNCHANGED <<buffer, next_id>>
    /\ UNCHANGED cvars

\* lines 104-106: a unit that was removed is put into service
ServeUnstarted(p, busy) == <<p, IF p.none THEN busy ELSE TRUE>>
Serve(p, busy) ==
    IF p.none THEN <<p, busy>> ELSE <<PacketStartService(p), TRUE>>

start_service(ok) ==
    /\ IF QueueLength(buffer) > 0
         THEN /\ served_packet' = Serve(QueueRemoved(buffer, ok), server_busy)[1]
              /\ server_busy' = Serve(QueueRemoved(buffer, ok), server_busy)[2]
              /\ buffer' = QueueAfterRemove(buffer, ok)
              /\ ret' = Ret("start_service", "True", 0)
         ELSE /\ UNCHANGED <<served_packet, server_busy, buffer>>
              /\ ret' = Ret("start_service", "False", 0)
    /\ UNCHANGED <<next_id, reported>>
    /\ UNCHANGED cvars

get_queue_length ==
    /\ ret' = Ret("get_queue_length", "None", QueueLength(buffer))
    /\ UNCHANGED <<server_busy, buffer, served_packet, next_id, reported>>
    /\ UNCHANGED cvars


\* ----------------------------------------------------------------- numbers
\* A statistic is a rational num/den, NaN, or a raised ZeroDivisionError.
\* kind "sqrt" is the square root of num/den; kind "cor" is the covariance
\* num divided by the square root of den (both up to the factors of n).
Samples == {5, 9}

Num(n, d) == [kind |-> "num", num |-> n, den |-> d]
NaN       == [kind |-> "nan", num |-> 0, den |-> 1]
Raise     == [kind |-> "raise", num |-> 0, den |-> 1]
Printed   == [kind |-> "printed", num |-> 0, den |-> 1]
NoValue   == [kind |-> "none", num |-> 0, den |-> 1]
Res(op, r) == [op |-> op, kind |-> r.kind, num |-> r.num, den |-> r.den]

RECURSIVE SumSeq(_)
SumSeq(s) == IF s = <<>> THEN 0 ELSE Head(s) + SumSeq(Tail(s))

Squares(s) == [i \in DOMAIN s |-> s[i] * s[i]]

\* ------------------------------------------------- TimeIndependentCounter
\* numpy.mean(self.values): NaN (and a warning) for an empty list
TIMean(v) == IF Len(v) = 0 THEN NaN ELSE Num(SumSeq(v), Len(v))

\* numpy.var(self.values, ddof=1): NaN for fewer than two values
TIVar(v) ==
    LET n == Len(v) IN
    IF n <= 1 THEN NaN
    ELSE Num(n * SumSeq(Squares(v)) - SumSeq(v) * SumSeq(v), n * (n - 1))

\* numpy.std(self.values, ddof=1)
TIStddev(v) ==
    IF TIVar(v).kind = "nan" THEN NaN ELSE [TIVar(v) EXCEPT !.kind = "sqrt"]

\* --------------------------------------------------- TimeDependentCounter
Weighted(v)   == [i \in DOMAIN v |-> v[i][1] * v[i][2]]
WeightedSq(v) == [i \in DOMAIN v |-> v[i][1] * v[i][2] * v[i][2]]

\* lines 171-174: float(sum) / float(last - first)
TDMean(v, first, last) ==
    IF last - first = 0 THEN Raise
    ELSE Num(SumSeq(Weighted(v)), last - first)

\* lines 181-184
TDVar(v, first, last) ==
    LET w == last - first
        s == SumSeq(Weighted(v))
    IN  IF w = 0 THEN Raise
        ELSE Num(SumSeq(WeightedSq(v)) * w - s * s, w * w)

\* line 191
TDStddev(v, first, last) ==
    IF TDVar(v, first, last).kind = "raise" THEN Raise
    ELSE [TDVar(v, first, last) EXCEPT !.kind = "sqrt"]

\* line 163: the pair appended by count
TDEntry(value, t, last) == <<t - last, value>>

\* line 164: the timestamp kept by count
TDLastKept(t, last) == last
TDLastAfterCount(t, last) == t

\* ------------------------------------- TimeIndependentCrosscorrelationCounter
\* line 243
Cov(v, X, Y) ==
    LET n == Len(v) IN
    IF n = 0 THEN Raise
    ELSE Num(n * SumSeq(v) - SumSeq(X) * SumSeq(Y), n * n)

\* line 251
Cor(v, X, Y) ==
    IF Cov(v, X, Y).kind = "raise" THEN Raise
    ELSE IF TIVar(X).kind = "nan" \/ TIVar(Y).kind = "nan" THEN NaN
    ELSE IF TIVar(X).num * TIVar(Y).num = 0 THEN Raise
    ELSE [kind |-> "cor", num |-> Cov(v, X, Y).num,
          den |-> TIVar(X).num * TIVar(Y).num]

\* -------------------------------------- TimeIndependentAutocorrelationCounter
\* numpy.roll(a, s): element i moves to position (i + s) mod n
Roll(a, s) == [i \in 1..Len(a) |-> a[((i - 1 - s) % Len(a)) + 1]]

\* lines 299-303: the products get_auto_cov stores in self.values
AutoProducts(X, lag, ml) ==
    LET n == Len(X)
        m == IF lag < n THEN n - lag ELSE 0
    IN  [j \in 1..m |-> Roll(X, lag % (ml + 1))[lag + j] * X[lag + j]]

\* line 300 divides by len(X_lag) before self.values is touched
AutoValuesAfter(v, X, lag, ml) ==
    IF Len(X) = 0 THEN v ELSE AutoProducts(X, lag, ml)

\* lines 304-305
AutoCov(X, lag, ml) ==
    LET n == Len(X)
        P == AutoProducts(X, lag, ml)
        m == Len(P)
    IN  IF n = 0 \/ m = 0 THEN Raise
        ELSE Num(n * n * SumSeq(P) - m * SumSeq(X) * SumSeq(X), m * n * n)

\* line 313
AutoCor(X, lag, ml) ==
    IF AutoCov(X, lag, ml).kind = "raise" THEN Raise
    ELSE IF TIVar(X).kind = "nan" \/ TIVar(X).num = 0 THEN NaN
    ELSE [kind |-> "cor", num |-> AutoCov(X, lag, ml).num,
          den |-> TIVar(X).num * TIVar(X).num]

\* ---------------------------------------------------------------- dispatch
Kinds == {"TIC", "TDC", "CROSS", "AUTO"}

Mean(k, v, first, last) ==
    IF k = "TDC" THEN TDMean(v, first, last) ELSE TIMean(v)

Var(k, v, first, last) ==
    IF k = "TDC" THEN TDVar(v, first, last) ELSE TIVar(v)

Stddev(k, v, first, last) ==
    IF k = "TDC" THEN TDStddev(v, first, last) ELSE TIStddev(v)

\* Counter.report and its two overrides
Report(k, v, X, Y, first, last, ml) ==
    CASE k = "CROSS" ->
           IF Cov(v, X, Y).kind = "raise" \/ Cor(v, X, Y).kind = "raise"
             THEN Raise ELSE Printed
      [] k = "AUTO" ->
           IF Len(X) = 0 \/ ml >= Len(X) THEN Raise ELSE Printed
      [] OTHER ->
           IF Len(v) # 0 /\ (Mean(k, v, first, last).kind = "raise"
                             \/ Var(k, v, first, last).kind = "raise")
             THEN Raise ELSE Printed

\* self.values after report: only the auto-correlation report writes it,
\* through get_auto_cov for the lags 0, 1, ..., max_lag
ReportValuesAfter(k, v, X, ml) ==
    IF k # "AUTO" \/ Len(X) = 0 THEN v
    ELSE IF ml < Len(X) THEN AutoProducts(X, ml, ml)
    ELSE <<>>

\* ----------------------------------------------------------------- Counter
CInit ==
    /\ kind \in Kinds
    /\ values = <<>>
    /\ Xvalues = <<>>
    /\ Yvalues = <<>>
    /\ first_timestamp = 0
    /\ last_timestamp = 0
    /\ max_lag \in (IF kind = "AUTO" THEN 0..MaxLag ELSE {0})
    /\ now = 0
    /\ counted = <<>>
    /\ result = Res("init", NoValue)

\* The simulation clock moves forward. Only the time-dependent counter
\* holds the simulation (self.sim); the other variants cannot observe it.
Tick ==
    /\ kind = "TDC"
    /\ \E t \in (now + 1)..MaxTime : now' = t
    /\ result' = Res("tick", NoValue)
    /\ UNCHANGED <<kind, values, Xvalues, Yvalues, first_timestamp,
                   last_timestamp, max_lag, counted>>
    /\ UNCHANGED svars

Counted(x, y) == [x |-> x, y |-> y, t |-> now]

count_ti(x) ==
    /\ kind = "TIC"
    /\ Len(counted) < MaxLen
    /\ values' = Append(values, x)
    /\ counted' = Append(counted, Counted(x, 0))
    /\ result' = Res("count", NoValue)
    /\ UNCHANGED <<kind, Xvalues, Yvalues, first_timestamp, last_timestamp,
                   max_lag, now>>
    /\ UNCHANGED svars

count_td(value) ==
    /\ kind = "TDC"
    /\ Len(counted) < MaxLen
    /\ values' = Append(values, TDEntry(value, now, last_timestamp))
    /\ last_timestamp' = TDLastAfterCount(now, last_timestamp)
    /\ counted' = Append(counted, Counted(value, 0))
    /\ result' = Res("count", NoValue)
    /\ UNCHANGED <<kind, Xvalues, Yvalues, first_timestamp, max_lag, now>>
    /\ UNCHANGED svars

count_cross(x, y) ==
    /\ kind = "CROSS"
    /\ Len(counted) < MaxLen
    /\ Xvalues' = Append(Xvalues, x)
    /\ Yvalues' = Append(Yvalues, y)
    /\ values' = Append(values, x * y)
    /\ counted' = Append(counted, Counted(x, y))
    /\ result' = Res("count", NoValue)
    /\ UNCHANGED <<kind, first_timestamp, last_timestamp, max_lag, now>>
    /\ UNCHANGED svars

count_auto(x) ==
    /\ kind = "AUTO"
    /\ Len(counted) < MaxLen
    /\ Xvalues' = Append(Xvalues, x)
    /\ counted' = Append(counted, Counted(x, 0))
    /\ result' = Res("count", NoValue)
    /\ UNCHANGED <<kind, values, Yvalues, first_timestamp, last_timestamp,
                   max_lag, now>>
    /\ UNCHANGED svars

reset ==
    /\ values' = <<>>
    /\ Xvalues' = <<>>
    /\ Yvalues' = <<>>
    /\ IF kind = "TDC"
         THEN first_timestamp' = now /\ last_timestamp' = now
         ELSE UNCHANGED <<first_timestamp, last_timestamp>>
    /\ counted' = <<>>
    /\ result' = Res("reset", NoValue)
    /\ UNCHANGED <<kind, max_lag, now>>
    /\ UNCHANGED svars

Query(op, r) ==
    /\ result' = Res(op, r)
    /\ UNCHANGED <<kind, values, Xvalues, Yvalues, first_timestamp,
                   last_timestamp, max_lag, now, counted>>
    /\ UNCHANGED svars

get_mean == Query("get_mean", Mean(kind, values, first_timestamp, last_timestamp))

get_var == Query("get_var", Var(kind, values, first_timestamp, last_timestamp))

get_stddev ==
    Query("get_stddev", Stddev(kind, values, first_timestamp, last_timestamp))

get_cov ==
    /\ kind = "CROSS"
    /\ Query("get_cov", Cov(values, Xvalues, Yvalues))

get_cor ==
    /\ kind = "CROSS"
    /\ Query("get_cor", Cor(values, Xvalues, Yvalues))

get_auto_cov(lag) ==
    /\ kind = "AUTO"
    /\ values' = AutoValuesAfter(values, Xvalues, lag, max_lag)
    /\ result' = Res("get_auto_cov", AutoCov(Xvalues, lag, max_lag))
    /\ UNCHANGED <<kind, Xvalues, Yvalues, first_timestamp, last_timestamp,
                   max_lag, now, counted>>
    /\ UNCHANGED svars

get_auto_cor(lag) ==
    /\ kind = "AUTO"
    /\ values' = AutoValuesAfter(values, Xvalues, lag, max_lag)
    /\ result' = Res("get_auto_cor", AutoCor(Xvalues, lag, max_lag))
    /\ UNCHANGED <<kind, Xvalues, Yvalues, first_timestamp, last_timestamp,
                   max_lag, now, counted>>
    /\ UNCHANGED svars

set_max_lag(l) ==
    /\ kind = "AUTO"
    /\ max_lag' = l
    /\ result' = Res("set_max_lag", NoValue)
    /\ UNCHANGED <<kind, values, Xvalues, Yvalues, first_timestamp,
                   last_timestamp, now, counted>>
    /\ UNCHANGED svars

report ==
    /\ values' = ReportValuesAfter(kind, values, Xvalues, max_lag)
    /\ result' = Res("report", Report(kind, values, Xvalues, Yvalues,
                                      first_timestamp, last_timestamp, max_lag))
    /\ UNCHANGED <<kind, Xvalues, Yvalues, first_timestamp, last_timestamp,
                   max_lag, now, counted>>
    /\ UNCHANGED svars

\* ---------------------------------------------------------- specifications
Init == SInit /\ CInit

Next ==
    \/ add_packet_to_server
    \/ add_packet_to_queue
    \/ complete_service
    \/ start_service(TRUE)
    \/ get_queue_length

Spec == Init /\ [][Next]_vars

FaultNext ==
    \/ add_packet_to_server
    \/ add_packet_to_queue
    \/ complete_service
    \/ \E ok \in BOOLEAN : start_service(ok)
    \/ get_queue_length

SpecFault == Init /\ [][FaultNext]_vars

CNext ==
    \/ Tick
    \/ \E x \in Samples : count_ti(x)
    \/ \E x \in Samples : count_td(x)
    \/ \E x \in Samples, y \in Samples : count_cross(x, y)
    \/ \E x \in Samples : count_auto(x)
    \/ reset
    \/ get_mean
    \/ get_var
    \/ get_stddev
    \/ get_cov
    \/ get_cor
    \/ \E lag \in 0..MaxLag : get_auto_cov(lag)
    \/ \E lag \in 0..MaxLag : get_auto_cor(lag)
    \/ \E l \in 0..MaxLag : set_max_lag(l)
    \/ report

CounterSpec == Init /\ [][CNext]_vars


\* ================================================================== claims
Range(s) == {s[i] : i \in DOMAIN s}

\* a live, in-service unit: a real packet that started service and is not
\* completed
Live(p) == ~p.none /\ p.in_service /\ ~p.completed

C2_CompleteAlwaysReports ==
    [][ret'.op = "complete_service" =>
          /\ ret'.result = "None"
          /\ ~server_busy'
          /\ ~served_packet.none
          /\ reported' = Append(reported, served_packet.id)
          /\ served_packet.completed => served_packet' = served_packet]_vars

\* C3: add_packet_to_server on a busy server returns false and changes
\* neither server_busy, served_packet nor the queue; the server stays busy
\* across add_packet_to_queue and get_queue_length, so a second
\* add_packet_to_server without complete_service or start_service in between
\* returns false.
C3_BusyServerRejects ==
    [][/\ (ret'.op = "add_packet_to_server" /\ server_busy) =>
             /\ ret'.result = "False"
             /\ UNCHANGED <<server_busy, served_packet, buffer>>
       /\ (ret'.op = "add_packet_to_server" /\ ret'.result = "True") =>
             server_busy'
       /\ ret'.op \in {"add_packet_to_queue", "get_queue_length"} =>
             server_busy' = server_busy
       /\ (ret.op = "add_packet_to_server" /\ ret.result = "True"
           /\ ret'.op = "add_packet_to_server") =>
             ret'.result = "False"]_vars

\* a second add_packet_to_server was refused by the busy server
C3_Witness ==
    /\ ret.op = "add_packet_to_server"
    /\ ret.result = "False"
    /\ server_busy
    /\ Live(served_packet)

\* the queue holds the units in the order they were constructed and accepted
Fifo(q) == \A i, j \in DOMAIN q : i < j => q[i] < q[j]

\* C4: start_service with a non-empty queue removes exactly the head unit,
\* makes it the served unit, marks it in service, sets server_busy and returns
\* true, the queue being kept in admission order; with an empty queue it
\* returns false and changes nothing.
C4_StartServiceServesHead ==
    /\ [](Fifo(buffer) /\ \A i \in DOMAIN buffer : buffer[i] # served_packet.id)
    /\ [][ret'.op = "start_service" =>
            IF Len(buffer) > 0
              THEN /\ served_packet'.id = Head(buffer)
                   /\ \A i \in DOMAIN buffer' : served_packet'.id < buffer'[i]
                   /\ buffer' = Tail(buffer)
                   /\ Live(served_packet')
                   /\ server_busy'
                   /\ ret'.result = "True"
              ELSE /\ ret'.result = "False"
                   /\ UNCHANGED <<server_busy, served_packet, buffer>>]_vars

\* the head of a queue of two was put into service, the younger unit waits
C4_Witness ==
    /\ ret.op = "start_service"
    /\ ret.result = "True"
    /\ Len(buffer) > 0
    /\ served_packet.id < buffer[1]
    /\ Live(served_packet)

\* C5: when start_service finds the queue non-empty but remove() yields no
\* unit, server_busy and served_packet keep their values and the call does
\* not return true.
C5_FailedRemoveChangesNothing ==
    [][(ret'.op = "start_service" /\ Len(buffer) > 0 /\ buffer' = buffer) =>
          /\ server_busy' = server_busy
          /\ served_packet' = served_packet
          /\ ret'.result # "True"]_vars

\* C6: the queue length stays within 0..K; add_packet_to_queue returns true
\* exactly when the queue held fewer than K units, then grows it by one, and
\* otherwise leaves it unchanged; it never changes server_busy or
\* served_packet; get_queue_length returns the occupancy and changes nothing.
C6_QueueBounded ==
    /\ [](Len(buffer) \in 0..K)
    /\ [][/\ ret'.op = "add_packet_to_queue" =>
               /\ ret'.result = "True" <=> Len(buffer) < K
               /\ ret'.result \in {"True", "False"}
               /\ Len(buffer) < K => Len(buffer') = Len(buffer) + 1
               /\ Len(buffer) >= K => buffer' = buffer
               /\ UNCHANGED <<server_busy, served_packet>>
          /\ ret'.op = "get_queue_length" =>
               /\ ret'.value = Len(buffer)
               /\ UNCHANGED <<server_busy, buffer, served_packet, reported>>]_vars

\* a unit was turned away by the full queue
C6_Witness ==
    /\ ret.op = "add_packet_to_queue"
    /\ ret.result = "False"
    /\ Len(buffer) = K

\* the entry count appends for the i-th count call since the last reset
Entry(i) ==
    CASE kind = "TDC" ->
           <<counted[i].t - (IF i = 1 THEN first_timestamp ELSE counted[i - 1].t),
             counted[i].x>>
      [] kind = "CROSS" -> counted[i].x * counted[i].y
      [] OTHER -> counted[i].x

\* C7: for every counter variant, values holds exactly one entry per count
\* call since construction or the last reset, in call order.
C7_ValuesAreTheCountedSamples ==
    values = [i \in 1..Len(counted) |-> Entry(i)]

\* C8: with an empty history a get_mean or get_var query fails instead of
\* returning a number or NaN; once a value has been counted get_mean no
\* longer fails.
C8_EmptyHistoryFails ==
    result.op \in {"get_mean", "get_var"} =>
        IF counted = <<>>
          THEN result.kind = "raise"
          ELSE result.op = "get_mean" => result.kind # "raise"

\* the sum of duration * value, from the times and values of the count calls
RECURSIVE ExpectedWeightedSum(_)
ExpectedWeightedSum(n) ==
    IF n = 0 THEN 0
    ELSE ExpectedWeightedSum(n - 1)
         + (counted[n].t - (IF n = 1 THEN first_timestamp ELSE counted[n - 1].t))
           * counted[n].x

\* C9: each count(value) of a time-dependent counter appends the pair
\* (now - last_timestamp, value) and sets last_timestamp to now, and get_mean
\* is the sum of duration * value divided by last_timestamp - first_timestamp.
C9_TimeWeightedMean ==
    kind = "TDC" =>
      /\ Len(values) = Len(counted)
      /\ \A i \in DOMAIN values :
            /\ values[i][2] = counted[i].x
            /\ values[i][1] >= 0
            /\ values[i][1] =
                 counted[i].t - (IF i = 1 THEN first_timestamp ELSE counted[i - 1].t)
      /\ last_timestamp =
           (IF counted = <<>> THEN first_timestamp ELSE counted[Len(counted)].t)
      /\ (result.op = "get_mean" /\ last_timestamp # first_timestamp) =>
            /\ result.kind = "num"
            /\ result.num * (last_timestamp - first_timestamp)
                 = result.den * ExpectedWeightedSum(Len(counted))

\* clock 0 at construction, count(5) at time 1, count(9) at time 3: 23/3
C9_Witness ==
    /\ kind = "TDC"
    /\ first_timestamp = 0
    /\ Len(counted) = 2
    /\ counted[1] = [x |-> 5, y |-> 0, t |-> 1]
    /\ counted[2] = [x |-> 9, y |-> 0, t |-> 3]
    /\ values = <<<<1, 5>>, <<2, 9>>>>
    /\ result.op = "get_mean"
    /\ result.num = 23
    /\ result.den = 3

\* C10 as stated: neither start_service nor add_packet_to_server replaces a
\* served unit that is still in service, and no unit that entered service
\* (every unit but the idle one of construction) is reported twice.
C10_ServedUnitReportedOnce ==
    /\ [](\A i, j \in DOMAIN reported :
            (reported[i] = reported[j] /\ reported[i] # 0) => i = j)
    /\ [][(server_busy /\ Live(served_packet)
           /\ ret'.op \in {"start_service", "add_packet_to_server"}) =>
             served_packet' = served_packet]_vars

\* C10 as amended: add_packet_to_server never replaces a unit in service; a
\* unit in service is replaced only by a start_service call that finds the
\* queue non-empty; complete_service called on a unit in service reports it
\* for the first time; reports come from complete_service only, and a unit is
\* reported again only by a complete_service call made while the server is
\* idle.
C10_Amended ==
    [][/\ (Live(served_packet) /\ ret'.op = "add_packet_to_server") =>
             served_packet' = served_packet
       /\ (Live(served_packet) /\ served_packet'.id # served_packet.id) =>
             (ret'.op = "start_service" /\ Len(buffer) > 0)
       /\ (Live(served_packet) /\ ret'.op = "complete_service") =>
             /\ served_packet.id \notin Range(reported)
             /\ reported' = Append(reported, served_packet.id)
       /\ reported' # reported => ret'.op = "complete_service"
       /\ (ret'.op = "complete_service" /\ reported' # reported
           /\ served_packet.id \in Range(reported)) =>
             (~server_busy /\ served_packet.completed)]_vars

\* a unit that entered service was completed and reported, once
C10_Witness ==
    /\ ret.op = "complete_service"
    /\ served_packet.in_service
    /\ served_packet.completed
    /\ Cardinality({i \in DOMAIN reported : reported[i] = served_packet.id}) = 1

====
